---------------------------- MODULE Spec2Model ----------------------------
(***************************************************************************)
(* Model of the last.fm acquisition / caching pipeline                     *)
(* (src/src/last_fm_main.py, src/src/last_fm_functions.py,                 *)
(* src/src/last_fm_config.py).                                             *)
(*                                                                         *)
(* main() calls geographic_top_artists, overall_top_artists and            *)
(* my_listening_history one after the other.  The three functions share no *)
(* variable and no file, so a behaviour follows one of them (dataset,      *)
(* chosen in Init) through any number of invocations against the same      *)
(* data directory.                                                         *)
(*                                                                         *)
(* A DataFrame is [cols, idx, rows]: column names, index labels and the    *)
(* rows (each a tuple of cells in column order).  A cell is                *)
(* <<tag, num, den>>; text is represented by a code number:                *)
(*   "str"    non-numeric text with code num                               *)
(*   "blank"  the empty string                                             *)
(*   "numstr" a string of digits spelling num                              *)
(*   "decstr" a string spelling num with a decimal point                   *)
(*   "int"    integer num          "float"  float num/den                  *)
(*   "nan" "inf" "obj" (a nested list)  "datetime" parsed timestamp num    *)
(***************************************************************************)
EXTENDS Integers, Sequences, FiniteSets, TLC

\* ------------------------------------------------------------- bounds
MaxRows == 2
MaxKeys == 3
MaxPages == 3
MaxNames == 2
MaxMapSize == 2

\* ---------------------------------------------------------- constants
OK200 == 200
RankStride == 200
CountrySleep == 1
ChartSleep == 1
HistorySleep == 2

\* ------------------------------------------------------------- cells
Str(c) == <<"str", c, 1>>
Blank == <<"blank", 0, 1>>
NumStr(n) == <<"numstr", n, 1>>
IntV(n) == <<"int", n, 1>>
FloatV(n) == <<"float", n, 1>>
NaN == <<"nan", 0, 1>>
Inf == <<"inf", 0, 1>>
Obj == <<"obj", 0, 1>>

\* ---------------------------------------------------------- DataFrame
EmptyDF == [cols |-> <<>>, idx |-> <<>>, rows |-> <<>>]

NRows(df) == Len(df.rows)

HasCol(df, c) == \E k \in 1..Len(df.cols) : df.cols[k] = c

ColPos(df, c) == CHOOSE k \in 1..Len(df.cols) : df.cols[k] = c

Column(df, c) == [r \in 1..NRows(df) |-> df.rows[r][ColPos(df, c)]]

RangeIndex(n) == [r \in 1..n |-> r - 1]

RemoveAt(s, k) == [j \in 1..(Len(s) - 1) |-> IF j < k THEN s[j] ELSE s[j + 1]]

\* df.drop(columns=[c], inplace=True), for a column the frame has
DropCol(df, c) ==
  [cols |-> RemoveAt(df.cols, ColPos(df, c)),
   idx  |-> df.idx,
   rows |-> [r \in 1..NRows(df) |-> RemoveAt(df.rows[r], ColPos(df, c))]]

\* df[c] = vals: a new column is appended, an existing one overwritten
SetCol(df, c, vals) ==
  IF HasCol(df, c)
  THEN [df EXCEPT !.rows = [r \in 1..NRows(df) |->
                              [df.rows[r] EXCEPT ![ColPos(df, c)] = vals[r]]]]
  ELSE [cols |-> Append(df.cols, c),
        idx  |-> df.idx,
        rows |-> [r \in 1..NRows(df) |-> Append(df.rows[r], vals[r])]]

\* pd.concat([a, b], ignore_index=True) of frames with the same columns, or
\* with a the column-less empty frame
Concat(a, b) ==
  [cols |-> IF a.cols = <<>> THEN b.cols ELSE a.cols,
   idx  |-> RangeIndex(NRows(a) + NRows(b)),
   rows |-> a.rows \o b.rows]

\* series.astype(float) on one cell
AsFloat(v) ==
  CASE v[1] \in {"numstr", "decstr", "int", "float"} -> <<"float", v[2], v[3]>>
    [] OTHER -> v

\* df[c] = df[c].astype(float)
AstypeFloat(df, c) == SetCol(df, c, [r \in 1..NRows(df) |-> AsFloat(Column(df, c)[r])])


\* the rows at positions order[1], order[2], ... with their index labels
SelectRows(df, order) ==
  [cols |-> df.cols,
   idx  |-> [r \in 1..Len(order) |-> df.idx[order[r]]],
   rows |-> [r \in 1..Len(order) |-> df.rows[order[r]]]]

\* lexicographic order on the pairs <<a1, a2>> of cell payloads
LexLeq(a, b) == a[1] < b[1] \/ (a[1] = b[1] /\ a[2] <= b[2])

RECURSIVE SortOrder(_, _)
\* stable ascending order of the positions rem by keys
SortOrder(keys, rem) ==
  IF rem = {} THEN <<>>
  ELSE LET p == CHOOSE p \in rem : \A q \in rem :
                   /\ LexLeq(keys[p], keys[q])
                   /\ (keys[p] = keys[q] => p <= q)
       IN  <<p>> \o SortOrder(keys, rem \ {p})

\* df.sort_values(by=[c1, c2], inplace=True): rows keep their index labels
SortValues(df, c1, c2) ==
  LET keys == [r \in 1..NRows(df) |-> <<Column(df, c1)[r][2], Column(df, c2)[r][2]>>]
  IN  SelectRows(df, SortOrder(keys, 1..NRows(df)))

RECURSIVE Ascending(_)
\* the positions of a set in increasing order
Ascending(S) ==
  IF S = {} THEN <<>>
  ELSE LET m == CHOOSE m \in S : \A q \in S : m <= q
       IN  <<m>> \o Ascending(S \ {m})

\* df.drop_duplicates(subset=[c], inplace=True): the first row of each value
\* stays, with its index label
DropDuplicates(df, c) ==
  LET col == Column(df, c)
  IN  SelectRows(df, Ascending({r \in 1..NRows(df) :
                                  \A q \in 1..(r - 1) : col[q] # col[r]}))

\* ---------------------------------------------------------------- CSV
\* A csv file is [header, lines]; a field is <<kind, num, den>> with kind
\* "text" (non-numeric text), "digits", "decimal", "inftext" or "empty".
FormatCell(v) ==
  CASE v[1] = "str"      -> <<"text", v[2], 1>>
    [] v[1] = "blank"    -> <<"empty", 0, 1>>
    [] v[1] = "numstr"   -> <<"digits", v[2], 1>>
    [] v[1] = "decstr"   -> <<"decimal", v[2], v[3]>>
    [] v[1] = "int"      -> <<"digits", v[2], 1>>
    [] v[1] = "float"    -> <<"decimal", v[2], v[3]>>
    [] v[1] = "nan"      -> <<"empty", 0, 1>>
    [] v[1] = "inf"      -> <<"inftext", 0, 1>>
    [] v[1] = "obj"      -> <<"text", 0, 1>>
    [] v[1] = "datetime" -> <<"text", v[2], 1>>

\* df.to_csv(path, index=index): with the index, a first column with an empty
\* header holds the index labels
ToCsv(df, index) ==
  [header |-> IF index THEN <<"">> \o df.cols ELSE df.cols,
   lines  |-> [r \in 1..NRows(df) |->
                 LET fields == [k \in 1..Len(df.cols) |-> FormatCell(df.rows[r][k])]
                 IN  IF index THEN <<FormatCell(IntV(df.idx[r]))>> \o fields
                     ELSE fields]]

\* the dtype pandas infers for a csv column from the kinds of its fields
ColumnDtype(kinds) ==
  IF kinds # {} /\ kinds \subseteq {"digits"} THEN "int64"
  ELSE IF kinds # {} /\ kinds \subseteq {"digits", "decimal", "inftext", "empty"}
       THEN "float64"
       ELSE "object"

ParseField(f, dtype) ==
  CASE dtype = "int64" -> IntV(f[2])
    [] dtype = "float64" ->
         (CASE f[1] = "empty" -> NaN
            [] f[1] = "inftext" -> Inf
            [] OTHER -> <<"float", f[2], f[3]>>)
    [] OTHER ->
         (CASE f[1] = "empty" -> NaN
            [] f[1] = "digits" -> NumStr(f[2])
            [] f[1] = "decimal" -> <<"decstr", f[2], f[3]>>
            [] f[1] = "inftext" -> Str(-1)
            [] OTHER -> Str(f[2]))

\* pd.read_csv(path): a column with an empty header is named "Unnamed: 0"
\* (only a first column is ever unnamed here), each column gets its inferred
\* dtype, the index is a fresh RangeIndex
ReadCsv(csv) ==
  LET n == Len(csv.lines)
      dtype == [k \in 1..Len(csv.header) |->
                  ColumnDtype({csv.lines[r][k][1] : r \in 1..n})]
  IN  [cols |-> [k \in 1..Len(csv.header) |->
                   IF csv.header[k] = "" THEN "Unnamed: 0" ELSE csv.header[k]],
       idx  |-> RangeIndex(n),
       rows |-> [r \in 1..n |->
                   [k \in 1..Len(csv.header) |-> ParseField(csv.lines[r][k], dtype[k])]]]


\* ------------------------------------------------------ configuration
Datasets == {"geo", "chart", "history"}

\* cfg.DATA_PATH + "<name>.csv"; the per-page files of the listening history
CachePath(d) ==
  [dir |-> "data/",
   name |-> CASE d = "geo" -> "country_artists_df.csv"
              [] d = "chart" -> "top_artists_df.csv"
              [] OTHER -> "tracks_df.csv",
   page |-> -1]

PagePathOfCache(p) == [dir |-> "data/", name |-> "tracks_df.csv", page |-> -1]

\* f"data/my_tracks/page_{page}.csv"
PagePath(p) == [dir |-> "data/my_tracks/", name |-> "page_.csv", page |-> p]

AllPaths == {CachePath(d) : d \in Datasets} \cup {PagePath(p) : p \in 0..(MaxPages - 1)}

Absent == [exists |-> FALSE, header |-> <<>>, lines |-> <<>>]

FileOf(csv) == [exists |-> TRUE, header |-> csv.header, lines |-> csv.lines]

\* Country names in alphabetical order; the code of a name is its place.
CountryNames == <<"Chad", "Cuba", "Czech Republic", "Czechia">>

CountryCode(c) == CHOOSE k \in 1..Len(CountryNames) : CountryNames[k] = c

\* The key lists: cfg.COUNTRIES is a list of pairwise distinct names.
KeyLists ==
  {s \in UNION {[1..n -> {CountryNames[k] : k \in 1..Len(CountryNames)}] : n \in 1..MaxKeys} :
     \A a, b \in 1..Len(s) : a # b => s[a] # s[b]}

\* Name-correction maps as sets of <<name, corrected name>>: none, the
\* configured one, and one whose corrected name is itself a country name.
NameChangeMaps ==
  {{}, {<<"Czechia", "Czech Republic">>}, {<<"Czechia", "Chad">>}}

CorrectNameConst(country, changes) ==
  IF changes = {} THEN country ELSE (CHOOSE m \in changes : TRUE)[2]

\* if country in country_name_changes: country = country_name_changes[country]
CorrectName(country, changes) ==
  IF \E m \in changes : m[1] = country
  THEN (CHOOSE m \in changes : m[1] = country)[2]
  ELSE country

\* Page sizes and totals: n_artists from 1 to MaxPages full pages, at and
\* just after each page boundary.
PageSizes == {1, 2, 50, RankStride}

ChartInputs ==
  UNION {{<<pp * (k - 1) + 1, pp>> : k \in 1..MaxPages} \cup
         {<<pp * k, pp>> : k \in 1..MaxPages} : pp \in PageSizes}

NRequestsFloor(n, pp) == n \div pp

\* int(np.ceil(n_artists / artists_per_page))
NRequests(n, pp) == IF n % pp = 0 THEN n \div pp ELSE (n \div pp) + 1

\* ------------------------------------------------------------- remote
\* The n records of a successful response, as pd.json_normalize lays them
\* out; a response without records is the column-less empty frame.
GeoFrame(country, n) ==
  IF n = 0 THEN EmptyDF
  ELSE [cols |-> <<"name", "listeners", "mbid", "image">>,
        idx  |-> RangeIndex(n),
        rows |-> [r \in 1..n |->
                    <<Str(10 * CountryCode(country) + r), NumStr(100 - r),
                      IF r = 1 THEN Str(500 + r) ELSE Blank, Obj>>]]

ChartFrame(page, n) ==
  IF n = 0 THEN EmptyDF
  ELSE [cols |-> <<"name", "playcount", "listeners", "mbid", "image">>,
        idx  |-> RangeIndex(n),
        rows |-> [r \in 1..n |->
                    <<Str(10 * page + r), NumStr(1000 * (10 - page)), NumStr(100 - r),
                      IF r = 1 THEN Str(500 + page) ELSE Blank, Obj>>]]

TracksFrame(page, n) ==
  IF n = 0 THEN EmptyDF
  ELSE [cols |-> <<"artist.#text", "name", "date.#text", "image">>,
        idx  |-> RangeIndex(n),
        rows |-> [r \in 1..n |->
                    <<Str(1 + (r % 2)), Str(10 * page + r), Str(1000 + 10 * page + r), Obj>>]]

\* if req.status_code == 200: parse, else: pd.DataFrame()
ResultFrame(status, parsed) == IF status = OK200 THEN parsed ELSE EmptyDF

\* an answer with a non-success status (500 stands for all of them)
FailedResponse == <<500, 0>>

\* what a response can be: a status and, on success, 0..most records
Responses(most) ==
  {<<OK200, n>> : n \in 0..most} \cup {FailedResponse}

Min(a, b) == IF a <= b THEN a ELSE b

\* events of one run: a remote call with its answer, or a sleep
Req(country, page, resp) ==
  [ev |-> "req", country |-> country, page |-> page, status |-> resp[1], n |-> resp[2]]

Slept(secs) == [ev |-> "sleep", country |-> "", page |-> -1, status |-> 0, n |-> secs]


\* ------------------------------------------------ name reconciliation
\* cfg.COUNTRY_NAME_MAPPING, as far as it touches the names modelled
ConfiguredMapping == {<<"Czechia", "Czech Republic">>}

\* the names of the naturalearth_lowres dataset, as far as modelled
NaturalEarthNames == <<"Chad", "Cuba", "Czechia">>

\* gpd.read_file(world_map_path): one row per country, its name in "name"
NaturalEarthFrame(names) ==
  [cols |-> <<"pop_est", "name">>,
   idx  |-> RangeIndex(Len(names)),
   rows |-> [r \in 1..Len(names) |-> <<IntV(1000 * r), Str(CountryCode(names[r]))>>]]

\* series.map(mapping) with a dict: the value of a key, NaN for any other cell
MapSeries(series, mapping) ==
  [r \in 1..Len(series) |->
     IF \E m \in mapping : Str(CountryCode(m[1])) = series[r]
     THEN Str(CountryCode((CHOOSE m \in mapping : Str(CountryCode(m[1])) = series[r])[2]))
     ELSE NaN]

\* series.fillna(other): the missing cells are taken from other
Fillna(series, other) ==
  [r \in 1..Len(series) |-> IF series[r] = NaN THEN other[r] ELSE series[r]]

RemapWithoutFillna(frame, mapping) ==
  LET renamed == [frame EXCEPT !.cols = [k \in 1..Len(frame.cols) |->
                    IF frame.cols[k] = "name" THEN "country" ELSE frame.cols[k]]]
  IN  SetCol(renamed, "country", MapSeries(Column(renamed, "country"), mapping))

\* world_map.rename(columns={"name": "country"}); world_map["country"] =
\* world_map["country"].map(country_name_mappings).fillna(world_map["country"])
RemapCountries(frame, mapping) ==
  LET renamed == [frame EXCEPT !.cols = [k \in 1..Len(frame.cols) |->
                    IF frame.cols[k] = "name" THEN "country" ELSE frame.cols[k]]]
  IN  SetCol(renamed, "country",
             Fillna(MapSeries(Column(renamed, "country"), mapping),
                    Column(renamed, "country")))

NameSet == {CountryNames[k] : k \in 1..Len(CountryNames)}

\* lists of names, repeats allowed
NameLists == UNION {[1..n -> NameSet] : n \in 1..MaxNames}

\* Name Maps as sets of <<name, mapped name>> with one entry per name at most
NameMaps ==
  {m \in SUBSET (NameSet \X NameSet) :
     /\ Cardinality(m) <= MaxMapSize
     /\ \A a, b \in m : a[1] = b[1] => a = b}

\* -------------------------------------------------------------- state
VARIABLES
  dataset,              \* which pipeline function the behaviour follows
  countries,            \* cfg.COUNTRIES
  country_name_changes, \* cfg.COUNTRY_NAME_CHANGES
  n_artists,            \* get_top_artists(n_artists=...)
  artists_per_page,     \* get_top_artists(artists_per_page=...)
  files,                \* the data directory: path -> file
  pc,                   \* where the current invocation is
  pos,                  \* loop variable: place in countries, or page
  n_requests,           \* get_top_artists: number of pages to request
  total_pages,          \* get_all_listening_history: totalPages of the probe
  df,                   \* the frame being accrued, then held by the pipeline
  err,                  \* the exception that ended the invocation, or "none"
  hit,                  \* outcome of the cache step: "none", "hit", "miss"
  log,                  \* remote calls and sleeps of this invocation, in order
  steps,                \* pipeline steps completed in this invocation, in order
  written,              \* paths written by this invocation
  held,                 \* the frame held after the cache step by the invocation
                        \* that wrote the cache file
  prev,                 \* how the previous invocation ended
  country_name_mappings, \* cfg.COUNTRY_NAME_MAPPING
  world_names,          \* the country names of the reference dataset
  request_country,      \* request_params["country"]: the name last queried
  world_map             \* create_top_artists_world_map: the reference frame

vars == <<dataset, countries, country_name_changes, n_artists, artists_per_page,
          files, pc, pos, n_requests, total_pages, df, err, hit, log, steps,
          written, held, prev, country_name_mappings, world_names,
          request_country, world_map>>

inputs == <<dataset, countries, country_name_changes, n_artists, artists_per_page,
            country_name_mappings, world_names>>

reconciled == <<request_country, world_map>>

Init ==
  /\ dataset \in Datasets
  /\ IF dataset = "geo"
     THEN countries \in KeyLists /\ country_name_changes \in NameChangeMaps
     ELSE countries = <<>> /\ country_name_changes = {}
  /\ IF dataset = "chart"
     THEN \E in \in ChartInputs : n_artists = in[1] /\ artists_per_page = in[2]
     ELSE n_artists = 0 /\ artists_per_page = 1
  /\ files = [f \in AllPaths |-> Absent]
  /\ pc = "not_started"
  /\ pos = 0
  /\ n_requests = 0
  /\ total_pages = 0
  /\ df = EmptyDF
  /\ err = "none"
  /\ hit = "none"
  /\ log = <<>>
  /\ steps = <<>>
  /\ written = {}
  /\ held = EmptyDF
  /\ prev = "none"
  /\ country_name_mappings = ConfiguredMapping
  /\ world_names = NaturalEarthNames
  /\ request_country = ""
  /\ world_map = EmptyDF

Raise(where, e) == pc' = where /\ err' = e

WriteFile(path, csv) ==
  /\ files' = [files EXCEPT ![path] = FileOf(csv)]
  /\ written' = written \cup {path}

CacheLookupAlwaysMiss(d) == FALSE

\* try: pd.read_csv(path) succeeds exactly when the file exists
CacheLookup(d) == files[CachePath(d)].exists

\* try: df = pd.read_csv(cfg.DATA_PATH + ...): the file is there
CacheHit ==
  /\ pc = "not_started"
  /\ CacheLookup(dataset)
  /\ df' = ReadCsv(files[CachePath(dataset)])
  /\ hit' = "hit"
  /\ steps' = Append(steps, "read")
  /\ pc' = "cached"
  /\ UNCHANGED <<inputs, reconciled, files, pos, n_requests, total_pages, err, log, written,
                 held, prev>>

\* except FileNotFoundError: the acquisition function is entered, up to its
\* first remote call
CacheMiss ==
  /\ pc = "not_started"
  /\ ~CacheLookup(dataset)
  /\ hit' = "miss"
  /\ df' = EmptyDF
  /\ pos' = IF dataset = "history" THEN 0 ELSE 1
  /\ n_requests' = IF dataset = "chart" THEN NRequests(n_artists, artists_per_page)
                   ELSE 0
  /\ pc' = IF dataset = "history" THEN "probe" ELSE "loop"
  /\ UNCHANGED <<inputs, reconciled, files, total_pages, err, log, steps, written, held, prev>>

\* requests.get raises (no connection): nothing catches it
RequestRaises ==
  /\ \/ pc = "probe"
     \/ pc = "loop" /\ dataset = "geo" /\ pos <= Len(countries)
     \/ pc = "loop" /\ dataset = "chart" /\ pos <= n_requests
     \/ pc = "loop" /\ dataset = "history" /\ pos < total_pages
  /\ Raise("failed_acquiring", "ConnectionError")
  /\ UNCHANGED <<inputs, reconciled, files, pos, n_requests, total_pages, df, hit, log, steps,
                 written, held, prev>>


\* --------------------------------------- get_countries_top_artists
\* country_rank = index + 1, country = the (corrected) name
RankedCountryFrame(frame, country) ==
  LET dropped == DropCol(frame, "image")
      ranked == SetCol(dropped, "country_rank",
                       [r \in 1..NRows(frame) |-> IntV(dropped.idx[r] + 1)])
  IN  SetCol(ranked, "country", [r \in 1..NRows(frame) |-> Str(CountryCode(country))])

AccrueCountryLatest(acc, frame, country) ==
  IF NRows(frame) > 0 THEN RankedCountryFrame(frame, country) ELSE acc

\* if len(country_artist_df) > 0: ... pd.concat(...)
AccrueCountry(acc, frame, country) ==
  IF NRows(frame) > 0 THEN Concat(acc, RankedCountryFrame(frame, country)) ELSE acc

\* one pass of the loop over countries: correct the name, send the request,
\* accrue a non-empty answer, sleep
CountryIteration ==
  /\ pc = "loop" /\ dataset = "geo" /\ pos <= Len(countries)
  /\ \E resp \in Responses(MaxRows) :
       LET country == CorrectName(countries[pos], country_name_changes)
           frame == ResultFrame(resp[1], GeoFrame(country, resp[2]))
       IN  /\ request_country' = country
           /\ df' = AccrueCountry(df, frame, country)
           /\ log' = log \o <<Req(country, -1, resp), Slept(CountrySleep)>>
  /\ pos' = pos + 1
  /\ UNCHANGED <<inputs, world_map, files, pc, n_requests, total_pages, err, hit, steps,
                 written, held, prev>>

\* after the loop: country_artists_df["listeners"].astype(float), return
CountriesReturn ==
  /\ pc = "loop" /\ dataset = "geo" /\ pos > Len(countries)
  /\ IF HasCol(df, "listeners")
     THEN /\ df' = AstypeFloat(df, "listeners")
          /\ steps' = steps \o <<"acquire", "coerce">>
          /\ pc' = "acquired"
          /\ err' = err
     ELSE /\ Raise("failed_acquiring", "KeyError")
          /\ UNCHANGED <<df, steps>>
  /\ UNCHANGED <<inputs, reconciled, files, pos, n_requests, total_pages, hit, log, written,
                 held, prev>>

\* geographic_top_artists: sort_values, to_csv(index=False)
GeoPersist ==
  /\ pc = "acquired" /\ dataset = "geo"
  /\ df' = SortValues(df, "country", "country_rank")
  /\ WriteFile(CachePath("geo"), ToCsv(df', FALSE))
  /\ held' = df'
  /\ steps' = steps \o <<"sort", "write">>
  /\ pc' = "cached"
  /\ UNCHANGED <<inputs, reconciled, pos, n_requests, total_pages, err, hit, log, prev>>

\* geographic_top_artists after the cache step: the frame goes to
\* create_top_artists_world_map, which loads the reference dataset and
\* remaps its country names before the merge
GeoFinish ==
  /\ pc = "cached" /\ dataset = "geo"
  /\ world_map' = RemapCountries(NaturalEarthFrame(world_names), country_name_mappings)
  /\ pc' = "ready"
  /\ UNCHANGED <<inputs, request_country, files, pos, n_requests, total_pages, df,
                 err, hit, log, steps, written, held, prev>>

\* ------------------------------------------------- get_top_artists
\* 200 * (page - 1): the page size is not used
RankOffset(page, pp) == RankStride * (page - 1)

\* drop image, rank = (index + 1) + offset
RankedChartFrame(frame, page, pp) ==
  LET dropped == DropCol(frame, "image")
  IN  SetCol(dropped, "rank",
             [r \in 1..NRows(frame) |-> IntV((dropped.idx[r] + 1) + RankOffset(page, pp))])

\* one pass of the loop over pages; drop(columns=["image"]) raises KeyError on
\* a frame without that column
ChartIteration ==
  /\ pc = "loop" /\ dataset = "chart" /\ pos <= n_requests
  /\ \E resp \in Responses(Min(artists_per_page, MaxRows)) :
       LET frame == ResultFrame(resp[1], ChartFrame(pos, resp[2]))
       IN  IF HasCol(frame, "image")
           THEN /\ df' = Concat(df, RankedChartFrame(frame, pos, artists_per_page))
                /\ log' = log \o <<Req("", pos, resp), Slept(ChartSleep)>>
                /\ pos' = pos + 1
                /\ UNCHANGED <<pc, err>>
           ELSE /\ log' = Append(log, Req("", pos, resp))
                /\ Raise("failed_acquiring", "KeyError")
                /\ UNCHANGED <<df, pos>>
  /\ UNCHANGED <<inputs, reconciled, files, n_requests, total_pages, hit, steps, written,
                 held, prev>>

ChartReturn ==
  /\ pc = "loop" /\ dataset = "chart" /\ pos > n_requests
  /\ steps' = Append(steps, "acquire")
  /\ pc' = "acquired"
  /\ UNCHANGED <<inputs, reconciled, files, pos, n_requests, total_pages, df, err, hit, log,
                 written, held, prev>>

ChartPersistWriteFirst ==
  /\ pc = "acquired" /\ dataset = "chart"
  /\ WriteFile(CachePath("chart"), ToCsv(df, TRUE))
  /\ df' = DropDuplicates(df, "mbid")
  /\ held' = df'
  /\ steps' = steps \o <<"write", "dedup">>
  /\ pc' = "cached"
  /\ UNCHANGED <<inputs, reconciled, pos, n_requests, total_pages, err, hit, log, prev>>

\* overall_top_artists: drop_duplicates(subset=["mbid"]), to_csv()
ChartPersist ==
  /\ pc = "acquired" /\ dataset = "chart"
  /\ df' = DropDuplicates(df, "mbid")
  /\ WriteFile(CachePath("chart"), ToCsv(df', TRUE))
  /\ held' = df'
  /\ steps' = steps \o <<"dedup", "write">>
  /\ pc' = "cached"
  /\ UNCHANGED <<inputs, reconciled, pos, n_requests, total_pages, err, hit, log, prev>>

\* playcount / listeners on floats
Ratio(p, l) ==
  IF l[1] # "float" \/ p[1] # "float" THEN NaN
  ELSE IF l[2] = 0 THEN (IF p[2] = 0 THEN NaN ELSE Inf)
       ELSE <<"float", p[2] * l[3], p[3] * l[2]>>

\* overall_top_artists after the cache step: astype(float) twice, the ratio
ChartAggregate ==
  /\ pc = "cached" /\ dataset = "chart"
  /\ LET coerced == AstypeFloat(AstypeFloat(df, "playcount"), "listeners")
     IN  df' = SetCol(coerced, "plays_per_listener",
                      [r \in 1..NRows(df) |->
                         Ratio(Column(coerced, "playcount")[r],
                               Column(coerced, "listeners")[r])])
  /\ steps' = steps \o <<"coerce", "ratio">>
  /\ pc' = "ready"
  /\ UNCHANGED <<inputs, reconciled, files, pos, n_requests, total_pages, err, hit, log,
                 written, held, prev>>


\* --------------------------------------- get_all_listening_history
\* tst = requests.get(...); total_pages = int(tst.json()[...]["totalPages"]):
\* an answer without that field raises KeyError.  The loop follows at once.
Probe ==
  /\ pc = "probe"
  /\ \E resp \in {<<OK200, t>> : t \in 0..MaxPages} \cup {FailedResponse} :
       /\ log' = Append(log, Req("", -1, resp))
       /\ IF resp[1] = OK200
          THEN total_pages' = resp[2] /\ pc' = "loop" /\ err' = err
          ELSE Raise("failed_acquiring", "KeyError") /\ total_pages' = total_pages
  /\ UNCHANGED <<inputs, reconciled, files, pos, n_requests, df, hit, steps, written, held, prev>>

\* one pass of the loop over range(total_pages): request, drop image, write
\* the page's file, accrue, sleep
HistoryIteration ==
  /\ pc = "loop" /\ dataset = "history" /\ pos < total_pages
  /\ \E resp \in Responses(MaxRows) :
       LET frame == ResultFrame(resp[1], TracksFrame(pos, resp[2]))
       IN  IF HasCol(frame, "image")
           THEN LET tracks == DropCol(frame, "image")
                IN  /\ WriteFile(PagePath(pos), ToCsv(tracks, TRUE))
                    /\ df' = Concat(df, tracks)
                    /\ log' = log \o <<Req("", pos, resp), Slept(HistorySleep)>>
                    /\ pos' = pos + 1
                    /\ UNCHANGED <<pc, err>>
           ELSE /\ log' = Append(log, Req("", pos, resp))
                /\ Raise("failed_acquiring", "KeyError")
                /\ UNCHANGED <<df, pos, files, written>>
  /\ UNCHANGED <<inputs, reconciled, n_requests, total_pages, hit, steps, held, prev>>

HistoryReturn ==
  /\ pc = "loop" /\ dataset = "history" /\ pos >= total_pages
  /\ steps' = Append(steps, "acquire")
  /\ pc' = "acquired"
  /\ UNCHANGED <<inputs, reconciled, files, pos, n_requests, total_pages, df, err, hit, log,
                 written, held, prev>>

\* my_listening_history: tracks_df.to_csv(cfg.DATA_PATH + "tracks_df.csv")
HistoryPersist ==
  /\ pc = "acquired" /\ dataset = "history"
  /\ WriteFile(CachePath("history"), ToCsv(df, TRUE))
  /\ held' = df
  /\ steps' = Append(steps, "write")
  /\ pc' = "cached"
  /\ UNCHANGED <<inputs, reconciled, pos, n_requests, total_pages, df, err, hit, log, prev>>

\* pd.to_datetime(text, format=...) on one cell
ToDatetime(v) == IF v[1] = "str" THEN <<"datetime", v[2], 1>> ELSE <<"nat", 0, 1>>

\* tracks_df.rename(columns={old: new})
RenameCol(frame, old, new) ==
  [frame EXCEPT !.cols = [k \in 1..Len(frame.cols) |->
                            IF frame.cols[k] = old THEN new ELSE frame.cols[k]]]

\* my_listening_history after the cache step: the datetime column (KeyError
\* when the frame has no "date.#text"), the renaming
HistoryAggregate ==
  /\ pc = "cached" /\ dataset = "history"
  /\ IF HasCol(df, "date.#text")
     THEN /\ df' = RenameCol(SetCol(df, "datetime",
                                    [r \in 1..NRows(df) |->
                                       ToDatetime(Column(df, "date.#text")[r])]),
                             "artist.#text", "artist")
          /\ steps' = Append(steps, "parse_timestamp")
          /\ pc' = "ready"
          /\ err' = err
     ELSE /\ Raise("failed_aggregating", "KeyError")
          /\ UNCHANGED <<df, steps>>
  /\ UNCHANGED <<inputs, reconciled, files, pos, n_requests, total_pages, hit, log, written,
                 held, prev>>

\* ------------------------------------------------------------ process
Ended == pc \in {"ready", "failed_acquiring", "failed_aggregating"}

\* the process has ended; main() is started again on the same data directory
Rerun ==
  /\ Ended
  /\ prev' = pc
  /\ pc' = "not_started"
  /\ pos' = 0
  /\ n_requests' = 0
  /\ total_pages' = 0
  /\ df' = EmptyDF
  /\ err' = "none"
  /\ hit' = "none"
  /\ log' = <<>>
  /\ steps' = <<>>
  /\ written' = {}
  /\ request_country' = ""
  /\ world_map' = EmptyDF
  /\ UNCHANGED <<inputs, files, held>>

Next ==
  \/ CacheHit
  \/ CacheMiss
  \/ RequestRaises
  \/ CountryIteration
  \/ CountriesReturn
  \/ GeoPersist
  \/ GeoFinish
  \/ ChartIteration
  \/ ChartReturn
  \/ ChartPersist
  \/ ChartAggregate
  \/ Probe
  \/ HistoryIteration
  \/ HistoryReturn
  \/ HistoryPersist
  \/ HistoryAggregate
  \/ Rerun

Spec == Init /\ [][Next]_vars

\* ------------------------------------- name reconciliation on its own
\* The two lookups applied to any list of names and any Name Map.
InitNames ==
  /\ dataset = "geo"
  /\ pc \in {"prequery", "remap"}
  /\ IF pc = "prequery"
     THEN /\ countries \in NameLists /\ country_name_changes \in NameMaps
          /\ world_names = <<>> /\ country_name_mappings = {}
     ELSE /\ countries = <<>> /\ country_name_changes = {}
          /\ world_names \in NameLists /\ country_name_mappings \in NameMaps
  /\ n_artists = 0 /\ artists_per_page = 1
  /\ files = [f \in AllPaths |-> Absent]
  /\ pos = 1
  /\ n_requests = 0
  /\ total_pages = 0
  /\ df = EmptyDF
  /\ err = "none"
  /\ hit = "none"
  /\ log = <<>>
  /\ steps = <<>>
  /\ written = {}
  /\ held = EmptyDF
  /\ prev = "none"
  /\ request_country = ""
  /\ world_map = EmptyDF

\* get_countries_top_artists, head of one loop pass: the name is corrected
\* and put into the request parameters
CorrectQueryName ==
  /\ pc = "prequery" /\ pos <= Len(countries)
  /\ request_country' = CorrectName(countries[pos], country_name_changes)
  /\ pos' = pos + 1
  /\ UNCHANGED <<inputs, world_map, files, pc, n_requests, total_pages, df, err,
                 hit, log, steps, written, held, prev>>

\* create_top_artists_world_map / create_listener_fraction_world_map: the
\* reference dataset is loaded and its country names remapped
RemapWorldMap ==
  /\ pc = "remap"
  /\ world_map' = RemapCountries(NaturalEarthFrame(world_names), country_name_mappings)
  /\ pc' = "remapped"
  /\ UNCHANGED <<inputs, request_country, files, pos, n_requests, total_pages, df,
                 err, hit, log, steps, written, held, prev>>

NextNames == CorrectQueryName \/ RemapWorldMap

SpecNames == InitNames /\ [][NextNames]_vars


\* ============================================================ claims
RECURSIVE Flatten(_)
Flatten(ss) == IF ss = <<>> THEN <<>> ELSE Head(ss) \o Flatten(Tail(ss))

IsReq(e) == e.ev = "req"

\* the remote calls of this invocation, in order
Reqs == SelectSeq(log, IsReq)

IsPageReq(e) == e.ev = "req" /\ e.page >= 0

PageReqs == SelectSeq(log, IsPageReq)

Paged == dataset \in {"chart", "history"}

\* C1: in the paged loops a page answered with a non-success status does not
\* abort the loop: the invocation is never ended by that page.
C1_FailedPageDoesNotAbort ==
  (Paged /\ \E k \in 1..Len(PageReqs) : PageReqs[k].status # OK200)
    => pc # "failed_acquiring"

\* C2: in the chart loop the rank of the record at 0-based position i of page
\* p is artists_per_page * (p - 1) + i + 1.
C2_RankByPageSize ==
  (dataset = "chart" /\ pc = "loop" /\ HasCol(df, "rank"))
    => Column(df, "rank") =
         Flatten([k \in 1..Len(PageReqs) |->
                    [r \in 1..PageReqs[k].n |->
                       IntV(artists_per_page * (PageReqs[k].page - 1) + (r - 1) + 1)]])

\* the name a key is requested under, from the map alone
Corrected(c) ==
  IF c \in {m[1] : m \in country_name_changes}
  THEN (CHOOSE m \in country_name_changes : m[1] = c)[2]
  ELSE c

\* the loop over countries has run to its end and the function has returned
\* or raised on the final coercion
CountriesDone ==
  dataset = "geo" /\ pos > Len(countries) /\ pc \in {"acquired", "failed_acquiring"}

\* every key requested once, in the given order, under its corrected name
KeysRequestedInOrder ==
  /\ Len(Reqs) = Len(countries)
  /\ \A k \in 1..Len(countries) : Reqs[k].country = Corrected(countries[k])

\* the rows of the keys answered with records, key by key: name, listeners
\* as float, mbid, country_rank 1.., country
RowsOfSuccessfulKeys ==
  Flatten([k \in 1..Len(Reqs) |->
             IF Reqs[k].status = OK200
             THEN [r \in 1..Reqs[k].n |->
                     <<Str(10 * CountryCode(Reqs[k].country) + r), FloatV(100 - r),
                       IF r = 1 THEN Str(500 + r) ELSE Blank, IntV(r),
                       Str(CountryCode(Reqs[k].country))>>]
             ELSE <<>>])

ReturnsRowsOfSuccessfulKeys ==
  /\ pc = "acquired"
  /\ KeysRequestedInOrder
  /\ df.rows = RowsOfSuccessfulKeys

\* C3 as stated: whenever at least one key is answered with success, the
\* function returns the rows of the successful keys in key order.
C3_Original ==
  (CountriesDone /\ \E k \in 1..Len(Reqs) : Reqs[k].status = OK200)
    => ReturnsRowsOfSuccessfulKeys

\* C3 (amended): whenever at least one key is answered with at least one
\* record, every key is requested once in order, failed and empty keys add
\* no rows and do not stop the loop, and the function returns exactly the
\* rows of the successful keys in key order.
C3_RowsOfSuccessfulKeysInOrder ==
  (CountriesDone /\ \E k \in 1..Len(Reqs) : Reqs[k].status = OK200 /\ Reqs[k].n > 0)
    => ReturnsRowsOfSuccessfulKeys

\* keys [A, B, C], B's call fails, A and C are answered with records
C3_Witness ==
  /\ CountriesDone /\ pc = "acquired"
  /\ Len(Reqs) = 3
  /\ Reqs[1].n > 0 /\ Reqs[2].status # OK200 /\ Reqs[3].n > 0

AcquisitionReturned == pc = "acquired" /\ hit = "miss"

\* C4 as stated: a completed discovered-count acquisition has sent
\* ceil(total_units / units_per_page) remote requests in all.
C4_Original ==
  /\ (AcquisitionReturned /\ dataset = "chart")
       => Len(Reqs) = (n_artists + artists_per_page - 1) \div artists_per_page
  /\ (AcquisitionReturned /\ dataset = "history") => Len(Reqs) = total_pages

\* C4 (amended): a completed get_top_artists has sent
\* ceil(n_artists / artists_per_page) requests in all; a completed
\* get_all_listening_history has sent totalPages page requests and, with the
\* probe, totalPages + 1 requests in all.
C4_RequestCount ==
  /\ (AcquisitionReturned /\ dataset = "chart")
       => Len(Reqs) = (n_artists + artists_per_page - 1) \div artists_per_page
  /\ (AcquisitionReturned /\ dataset = "history")
       => Len(PageReqs) = total_pages /\ Len(Reqs) = total_pages + 1

\* a total that is not a multiple of the page size, more than one page
C4_Witness ==
  /\ AcquisitionReturned /\ dataset = "chart"
  /\ n_artists % artists_per_page # 0
  /\ Len(Reqs) >= 2

\* C5: a remote call that is followed by another remote call of the same
\* invocation is followed by a sleep first.
C5_SleepBetweenCalls ==
  \A k \in 1..(Len(log) - 1) : IsReq(log[k]) => log[k + 1].ev = "sleep"

\* C6: the frame held after the cache step on a cache hit has the columns
\* and the rows, in order, of the frame held after the cache step by the
\* invocation that wrote the file.
C6_CacheRoundTrip ==
  (hit = "hit" /\ pc = "cached") => df.cols = held.cols /\ df.rows = held.rows

CacheExists == files[CachePath(dataset)].exists

\* C7: once an invocation got past acquisition (it ended ready, or failed
\* only after the cache step) the cache file exists and the next invocation,
\* hence every later one, takes the cache hit; an invocation that takes the
\* cache hit sends no remote call.
C7_NoRemoteCallsOnceCached ==
  /\ prev \in {"ready", "failed_aggregating"} => CacheExists /\ hit # "miss"
  /\ CacheExists /\ hit # "miss" => Len(Reqs) = 0

\* a second invocation that ran to its end on the cache hit
C7_Witness ==
  prev = "ready" /\ hit = "hit" /\ pc = "ready" /\ Len(held.rows) > 0

Acquiring == pc \in {"probe", "loop", "failed_acquiring"}

AllProcessed ==
  CASE dataset = "geo" -> pos > Len(countries)
    [] dataset = "chart" -> pos > n_requests
    [] OTHER -> pos >= total_pages /\ Len(Reqs) > 0

\* no request for a key or a page has been answered yet
NothingAcquired ==
  \A k \in 1..Len(Reqs) : Reqs[k].page = -1 /\ Reqs[k].country = ""

CacheOnlyAfterAll ==
  /\ CachePath(dataset) \in written => AllProcessed /\ ~Acquiring
  /\ Acquiring => ~CacheExists
  /\ prev = "failed_acquiring" => hit # "hit" /\ (pc = "not_started" => ~CacheExists)
  /\ (pc \in {"probe", "loop"} /\ NothingAcquired) =>
       df = EmptyDF /\ pos = (IF dataset = "history" THEN 0 ELSE 1)

\* C8 as stated: the cache file is written only after every key/page, no
\* file at all is written while acquiring, a re-run after a failed
\* acquisition misses the cache and starts from the first key/page.
C8_Original ==
  /\ CacheOnlyAfterAll
  /\ Acquiring => written = {}

\* C8 (amended): the cache file is written only after every key/page has
\* been processed, and a re-run after a failed acquisition misses the cache
\* and starts from the first key/page.  While acquiring, the geographic and
\* chart datasets write no file; the listening history writes the file of
\* each page it fetched (pages 0..pos-1), and nothing else.
C8_NoCacheFileBeforeCompletion ==
  /\ CacheOnlyAfterAll
  /\ Acquiring =>
       written = IF dataset = "history" THEN {PagePath(p) : p \in 0..(pos - 1)}
                 ELSE {}

\* a re-run of the listening history after a failed acquisition that left a
\* page file: cache miss, back at page 0
C8_Witness ==
  /\ dataset = "history" /\ prev = "failed_acquiring"
  /\ files[PagePath(0)].exists /\ written = {}
  /\ hit = "miss" /\ pc = "loop" /\ pos = 0 /\ total_pages > 0

\* C9 as stated: a hit goes straight to ready; on a miss every aggregation
\* step precedes the write and nothing follows it.
C9_Original ==
  pc = "ready" =>
    IF hit = "hit" THEN steps = <<"read">>
    ELSE steps[1] = "acquire" /\ steps[Len(steps)] = "write"

\* the steps of a complete invocation, per dataset and cache outcome
PipelineSteps(d, h) ==
  (IF h = "hit" THEN <<"read">>
   ELSE CASE d = "geo" -> <<"acquire", "coerce", "sort", "write">>
          [] d = "chart" -> <<"acquire", "dedup", "write">>
          [] OTHER -> <<"acquire", "write">>)
  \o (CASE d = "geo" -> <<>>
        [] d = "chart" -> <<"coerce", "ratio">>
        [] OTHER -> <<"parse_timestamp">>)

\* C9 (amended): on a miss the file is written after acquisition and after
\* the steps that precede the write (geographic: listeners coercion and
\* sorting; chart: deduplication), and the other aggregation steps (chart:
\* type coercion and ratio; listening history: timestamp parsing) run after
\* the write; on a hit the same steps run after the read.  The chart file
\* holds the deduplicated frame without the derived ratio.
C9_StepOrder ==
  /\ pc = "ready" => steps = PipelineSteps(dataset, hit)
  /\ (pc = "ready" /\ dataset = "chart") =>
       /\ HasCol(df, "plays_per_listener")
       /\ \A k \in 1..Len(files[CachePath("chart")].header) :
            files[CachePath("chart")].header[k] # "plays_per_listener"
       /\ LET f == files[CachePath("chart")]
              m == CHOOSE k \in 1..Len(f.header) : f.header[k] = "mbid"
          IN  \A a, b \in 1..Len(f.lines) : a # b => f.lines[a][m] # f.lines[b][m]

\* a chart invocation that acquired, wrote and ran to its end, with a
\* duplicate removed before the write
C9_Witness ==
  /\ pc = "ready" /\ dataset = "chart" /\ hit = "miss"
  /\ Len(df.rows) < Len(PageReqs) * MaxRows /\ Len(PageReqs) >= 2
  /\ \A k \in 1..Len(PageReqs) : PageReqs[k].n = MaxRows

CountryColumn == IF HasCol(df, "country") THEN Column(df, "country") ELSE <<>>

\* each key's rows form one block, which one request produced
OneBlockPerKey ==
  /\ \A a, b, c \in 1..Len(CountryColumn) :
       (a < b /\ b < c /\ CountryColumn[a] = CountryColumn[c])
         => CountryColumn[b] = CountryColumn[a]
  /\ \A j, k \in 1..Len(Reqs) :
       (j # k /\ Reqs[j].n > 0 /\ Reqs[k].n > 0) => Reqs[j].country # Reqs[k].country
  /\ \A k \in 1..Len(Reqs) :
       Reqs[k].n > 0 =>
         Cardinality({r \in 1..Len(CountryColumn) :
                        CountryColumn[r] = Str(CountryCode(Reqs[k].country))}) = Reqs[k].n

\* C10 as stated: for pairwise distinct keys and any name-correction map, no
\* two requests contribute rows under the same key.
C10_Original ==
  (dataset = "geo" /\ pc \in {"loop", "acquired"}) => OneBlockPerKey

\* C10 (amended): for pairwise distinct keys whose corrected names are
\* pairwise distinct too, each key value fills at most one contiguous block
\* of rows, produced by a single request.
C10_OneBlockPerCorrectedKey ==
  (/\ dataset = "geo" /\ pc \in {"loop", "acquired"}
   /\ \A a, b \in 1..Len(countries) :
        a # b => Corrected(countries[a]) # Corrected(countries[b]))
    => OneBlockPerKey

\* a corrected key and another key, both answered with records
C10_Witness ==
  /\ dataset = "geo" /\ pc = "acquired"
  /\ \E k \in 1..Len(countries) : Corrected(countries[k]) # countries[k]
  /\ \A a, b \in 1..Len(countries) :
       a # b => Corrected(countries[a]) # Corrected(countries[b])
  /\ Cardinality({k \in 1..Len(Reqs) : Reqs[k].n > 0}) >= 2

\* the name a Name Map gives for a name: its entry's value, else the name
MappedName(name, mapping) ==
  IF name \in {m[1] : m \in mapping}
  THEN (CHOOSE m \in mapping : m[1] = name)[2]
  ELSE name

\* C11: name reconciliation is a forward lookup with pass-through, in both
\* uses: the name queried is the mapped name of the key if the key is in the
\* map and the key itself otherwise; the remapped reference frame has, row
\* for row, the mapped name of each original name or the original name, and
\* no row is lost.
C11_ForwardLookupPassThrough ==
  /\ (pc = "prequery" /\ pos > 1)
       => request_country = MappedName(countries[pos - 1], country_name_changes)
  /\ pc = "remapped" =>
       /\ HasCol(world_map, "country")
       /\ NRows(world_map) = Len(world_names)
       /\ Column(world_map, "country") =
            [r \in 1..Len(world_names) |->
               Str(CountryCode(MappedName(world_names[r], country_name_mappings)))]

\* the map {A: B} applied to [A, C] has given [B, C]
C11_Witness ==
  /\ pc = "remapped"
  /\ world_names = <<"Czechia", "Chad">>
  /\ country_name_mappings = {<<"Czechia", "Czech Republic">>}
  /\ Column(world_map, "country") =
       <<Str(CountryCode("Czech Republic")), Str(CountryCode("Chad"))>>

=============================================================================
